---- MODULE Spec2Model ----
(***************************************************************************)
(* dac_toffoli (notebooks/tutorials/lang/realistic_lib.py) and             *)
(* standard_toffoli (tutorials/lang/simulation_lib.py).                    *)
(*                                                                         *)
(* The construction of the routine is modelled as the Python call stack of *)
(* dac_toffoli: one frame per call, one action per stretch of the body     *)
(* between two recursive calls.  The routine that the top-level call       *)
(* returns is then expanded to a flat list of multi-controlled X gates and *)
(* run, gate by gate, on a computational basis state.                      *)
(*                                                                         *)
(* Wires are numbered from 0, as the indices of a Python list.  A sequence *)
(* of wires is a TLA+ sequence, so wire w of a register r is r[w + 1].     *)
(***************************************************************************)
EXTENDS Integers, Sequences, FiniteSets, TLC

VARIABLES
    n,       \* the argument of the top-level call dac_toffoli(n)
    stack,   \* the frames of the calls of dac_toffoli in progress, innermost last
    ret,     \* the gate returned by the call that returned last (NoGate: none)
    pc,      \* "building", "built", "running", "done", "error"
    circ,    \* the expanded circuit of the returned gate: a sequence of X gates
    input,   \* the basis state the circuit is run on: bits of wires 0 .. n-1
    wires,   \* the current value of every wire of the expanded circuit
    ip,      \* the index in circ of the next gate to execute
    ref      \* the final wires of standard_toffoli(n) on the same input

vars == <<n, stack, ret, pc, circ, input, wires, ip, ref>>

----------------------------------------------------------------------------
(* Bounds *)

\* the largest argument of the top-level call
MaxN == 8
\* the top-level call is also made with the LowSpan arguments just below 3
LowSpan == 4
\* the depth of the Python call stack at which a further call raises
\* RecursionError (sys.getrecursionlimit(), scaled down)
RecursionLimit == 6

Args == (3 - LowSpan) .. MaxN

----------------------------------------------------------------------------
(* Python helpers *)

Min(a, b) == IF a <= b THEN a ELSE b

Max(a, b) == IF a >= b THEN a ELSE b

\* the list [a, a+1, ..., a+k-1]; empty when k <= 0 (range(a, a+k))
SeqRange(a, k) == [i \in 1 .. Max(k, 0) |-> a + i - 1]

\* s[lo:hi] of a Python list, for 0 <= lo and 0 <= hi: indices are clamped
PySlice(s, lo, hi) == SubSeq(s, Min(lo, Len(s)) + 1, Min(hi, Len(s)))

\* s[lo:]
PySliceFrom(s, lo) == SubSeq(s, Min(lo, Len(s)) + 1, Len(s))

\* s[-1]
PyLast(s) == s[Len(s)]

SeqToSet(s) == {s[i] : i \in 1 .. Len(s)}

----------------------------------------------------------------------------
(* The library's circuit-building primitives, as far as the two functions  *)
(* use them.  A routine has nbwires wires 0 .. nbwires-1: the wires made   *)
(* by new_wires and, for every sub-gate applied, the wires that hold the   *)
(* ancillae of that sub-gate ("hidden" in the operation).                  *)

\* QRoutine()
QRoutine == [nbwires |-> 0, ancillae |-> {}, ops |-> <<>>, computing |-> FALSE]

\* no gate (Python's unbound name)
NoGate == [name |-> "none", param |-> 0, arity |-> 0, impl |-> QRoutine]

\* X.ctrl(k): k controls followed by the target
XCtrl(k) == [name |-> "X", param |-> k, arity |-> k + 1, impl |-> QRoutine]

\* the arity generator of build_gate("TOFF", [int], lambda n: n)
Arity(m) == m

\* what the build_gate wrapper hands back for a body that returned rout
BuildGate(m, rout) == [name |-> "TOFF", param |-> m, arity |-> Arity(m), impl |-> rout]

\* the number of ancilla wires a gate needs when it is applied
NbAncillae(gate) == IF gate.name = "TOFF" THEN gate.impl.nbwires - gate.arity ELSE 0

\* rout.new_wires(k): the routine after the call; the wires it returns are
\* NewWires(rout, k)
AfterNewWires(rout, k) == [rout EXCEPT !.nbwires = @ + Max(k, 0)]

NewWires(rout, k) == SeqRange(rout.nbwires, k)

\* rout.apply(gate, qbits): the operation is recorded with the block it is
\* applied in; the ancillae of a sub-gate get wires of their own
Apply(rout, gate, qbits) ==
    [rout EXCEPT
        !.ops = Append(@, [gate   |-> gate,
                           qbits  |-> qbits,
                           hidden |-> SeqRange(rout.nbwires, NbAncillae(gate)),
                           block  |-> IF rout.computing THEN "compute" ELSE "main"]),
        !.nbwires = @ + NbAncillae(gate)]

\* a body that forgets rout.set_ancillae
SetAncillaeForgotten(rout, qbits) == rout

\* rout.set_ancillae(qbits)
SetAncillae(rout, qbits) == [rout EXCEPT !.ancillae = @ \cup SeqToSet(qbits)]

\* entering and leaving "with rout.compute():"
EnterCompute(rout) == [rout EXCEPT !.computing = TRUE]

ExitCompute(rout) == [rout EXCEPT !.computing = FALSE]

RECURSIVE DaggerRout(_)
\* the inverse of an operation: X gates are their own inverse, the inverse
\* of a routine is its operations inverted, in reverse order
DaggerOp(op) ==
    IF op.gate.name = "TOFF"
    THEN [op EXCEPT !.gate.impl = DaggerRout(@)]
    ELSE op

DaggerRout(rout) ==
    [rout EXCEPT !.ops = [i \in 1 .. Len(rout.ops) |->
                              DaggerOp(rout.ops[Len(rout.ops) + 1 - i])]]

ComputeOps(rout) == SelectSeq(rout.ops, LAMBDA o : o.block = "compute")

\* a body that forgets rout.uncompute()
UncomputeForgotten(rout) == rout

\* an uncompute that inverts the operations of the compute block in the
\* order they were applied in
UncomputeForward(rout) ==
    LET comp == ComputeOps(rout)
    IN  [rout EXCEPT !.ops = @ \o [i \in 1 .. Len(comp) |->
             [DaggerOp(comp[i]) EXCEPT !.block = "uncompute"]]]

\* rout.uncompute(): the inverse of the compute block, on the same wires
Uncompute(rout) ==
    LET comp == ComputeOps(rout)
    IN  [rout EXCEPT !.ops = @ \o [i \in 1 .. Len(comp) |->
             [DaggerOp(comp[Len(comp) + 1 - i]) EXCEPT !.block = "uncompute"]]]

----------------------------------------------------------------------------
(* dac_toffoli *)

\* a base case written n <= 3
IsBaseAtMost(m) == m <= 3

\* n == 3
IsBase(m) == m = 3

\* a first half that is not halved
FirstHalfWhole(m) == m - 1

\* first_half = (n - 1) // 2 + ((n - 1) % 2)
FirstHalf(m) == ((m - 1) \div 2) + ((m - 1) % 2)

\* second_half = (n - 1) // 2
SecondHalf(m) == (m - 1) \div 2

\* the argument of the first and of the second recursive call
FirstArg(m) == FirstHalf(m) + 1

SecondArg(m) == SecondHalf(m) + 1

\* a test written second_half > 2
HasSecondAboveTwo(m) == SecondHalf(m) > 2

\* if second_half > 1
HasSecond(m) == SecondHalf(m) > 1

\* a first slice written controls[1:first_half]
FirstSliceFromOne(controls, m) == PySlice(controls, 1, FirstHalf(m))

\* controls[0:first_half] and controls[first_half:]
FirstSlice(controls, m) == PySlice(controls, 0, FirstHalf(m))

SecondSlice(controls, m) == PySliceFrom(controls, FirstHalf(m))

\* the final gate with its last two arguments exchanged
FinalQbitsSwapped(first_anc, second_anc, target) == first_anc \o target \o second_anc

\* the qbits of rout.apply(X.ctrl(2), first_anc, second_anc, target)
FinalQbits(first_anc, second_anc, target) == first_anc \o second_anc \o target

\* the base gate with the target given first
BaseQbitsTargetFirst(controls, target) == target \o controls

\* the qbits of rout.apply(X.ctrl(2), controls, target)
BaseQbits(controls, target) == controls \o target

\* the first sub-gate with the ancilla given first
FirstQbitsAncFirst(slice, anc) == anc \o slice

\* the qbits of rout.apply(first_toffoli, controls[0:first_half], first_anc)
FirstQbits(slice, anc) == slice \o anc

\* a call dac_toffoli(m) up to the test "if n == 3":
\* rout = QRoutine(); controls = rout.new_wires(n - 1); target = rout.new_wires(1)
NewFrame(m) ==
    LET r1 == AfterNewWires(QRoutine, m - 1)
    IN  [n         |-> m,
         at        |-> "entry",
         controls  |-> NewWires(QRoutine, m - 1),
         target    |-> NewWires(r1, 1),
         rout      |-> AfterNewWires(r1, 1),
         first_anc |-> <<>>]

Top == stack[Len(stack)]

Pop == SubSeq(stack, 1, Len(stack) - 1)

\* "return rout" of the innermost call
Return(rout) ==
    /\ ret' = BuildGate(Top.n, rout)
    /\ stack' = Pop
    /\ pc' = IF Len(stack) = 1 THEN "built" ELSE "building"

\* first_anc = rout.new_wires(1); rout.apply(first_toffoli, controls[0:first_half],
\* first_anc); rout.set_ancillae(first_anc)
WithFirst(f) ==
    LET anc == NewWires(f.rout, 1)
        r1  == AfterNewWires(f.rout, 1)
        r2  == Apply(r1, ret, FirstQbits(FirstSlice(f.controls, f.n), anc))
    IN  [f EXCEPT !.rout = SetAncillae(r2, anc), !.first_anc = anc]

\* the end of the body: the compute block is left, then
\* rout.apply(X.ctrl(2), first_anc, second_anc, target); rout.uncompute()
Finish(f, second_anc) ==
    Uncompute(Apply(ExitCompute(f.rout), XCtrl(2),
                    FinalQbits(f.first_anc, second_anc, f.target)))

\* if n == 3: rout.apply(X.ctrl(2), controls, target); return rout
BaseCase ==
    /\ pc = "building" /\ Len(stack) > 0
    /\ Top.at = "entry" /\ IsBase(Top.n)
    /\ Return(Apply(Top.rout, XCtrl(2), BaseQbits(Top.controls, Top.target)))
    /\ UNCHANGED <<n, circ, input, wires, ip, ref>>

\* first_half, second_half; with rout.compute(): first_toffoli = dac_toffoli(first_half + 1)
CallFirst ==
    /\ pc = "building" /\ Len(stack) > 0
    /\ Top.at = "entry" /\ ~IsBase(Top.n)
    /\ Len(stack) < RecursionLimit
    /\ stack' = Append([stack EXCEPT ![Len(stack)] =
                            [@ EXCEPT !.at = "first", !.rout = EnterCompute(@)]],
                       NewFrame(FirstArg(Top.n)))
    /\ UNCHANGED <<n, ret, pc, circ, input, wires, ip, ref>>

\* the call of CallFirst when the stack is as deep as Python allows
RecursionError ==
    /\ pc = "building" /\ Len(stack) > 0
    /\ Top.at = "entry" /\ ~IsBase(Top.n)
    /\ Len(stack) >= RecursionLimit
    /\ pc' = "error"
    /\ stack' = <<>>
    /\ UNCHANGED <<n, ret, circ, input, wires, ip, ref>>

\* rout.new_wires(n - 1) with a negative count: the library may raise
LibraryError ==
    /\ pc = "building" /\ Len(stack) > 0
    /\ Top.at = "entry" /\ Top.n - 1 < 0
    /\ pc' = "error"
    /\ stack' = <<>>
    /\ UNCHANGED <<n, ret, circ, input, wires, ip, ref>>

\* the first call has returned; second_half > 1:
\* second_toffoli = dac_toffoli(second_half + 1)
CallSecond ==
    /\ pc = "building" /\ Len(stack) > 0
    /\ Top.at = "first" /\ HasSecond(Top.n)
    /\ stack' = Append([stack EXCEPT ![Len(stack)] =
                            [WithFirst(@) EXCEPT !.at = "second"]],
                       NewFrame(SecondArg(Top.n)))
    /\ ret' = NoGate
    /\ UNCHANGED <<n, pc, circ, input, wires, ip, ref>>

\* the first call has returned; else: second_anc = controls[-1]
FinishOneHalf ==
    /\ pc = "building" /\ Len(stack) > 0
    /\ Top.at = "first" /\ ~HasSecond(Top.n)
    /\ Return(Finish(WithFirst(Top), <<PyLast(Top.controls)>>))
    /\ UNCHANGED <<n, circ, input, wires, ip, ref>>

\* the second call has returned: second_anc = rout.new_wires(1);
\* rout.apply(second_toffoli, controls[first_half:], second_anc);
\* rout.set_ancillae(second_anc)
FinishTwoHalves ==
    /\ pc = "building" /\ Len(stack) > 0
    /\ Top.at = "second"
    /\ LET anc == NewWires(Top.rout, 1)
           r1  == AfterNewWires(Top.rout, 1)
           r2  == Apply(r1, ret, SecondSlice(Top.controls, Top.n) \o anc)
       IN  Return(Finish([Top EXCEPT !.rout = SetAncillae(r2, anc)], anc))
    /\ UNCHANGED <<n, circ, input, wires, ip, ref>>

----------------------------------------------------------------------------
(* standard_toffoli *)

\* rout = QRoutine(); wires = rout.new_wires(n); rout.apply(X.ctrl(n - 1), wires)
StandardToffoli(m) ==
    BuildGate(m, Apply(AfterNewWires(QRoutine, m), XCtrl(m - 1), NewWires(QRoutine, m)))

----------------------------------------------------------------------------
(* Expansion and execution on a basis state *)

\* global wire of a local wire
MapWires(map, qbits) == [i \in 1 .. Len(qbits) |-> map[qbits[i] + 1]]

RECURSIVE Expand(_, _, _, _)
\* the X gates of operations i .. of a routine whose local wire w is the
\* global wire map[w + 1]; tag is the block of the top-level operation
\* ("" at the top level itself)
Expand(rout, i, map, tag) ==
    IF i > Len(rout.ops) THEN <<>>
    ELSE LET op == rout.ops[i]
             t  == IF tag = "" THEN op.block ELSE tag
             g  == IF op.gate.name = "TOFF"
                   THEN Expand(op.gate.impl, 1, MapWires(map, op.qbits \o op.hidden), t)
                   ELSE <<[nctrl |-> op.gate.param,
                           qbits |-> MapWires(map, op.qbits),
                           block |-> t]>>
         IN  g \o Expand(rout, i + 1, map, tag)

\* the circuit of a gate applied to wires 0 .. arity-1, its ancillae after them
Circuit(gate) == Expand(gate.impl, 1, SeqRange(0, gate.impl.nbwires), "")

\* the target of a gate and its controls
GateTarget(g) == g.qbits[Len(g.qbits)]

GateControls(g) == {g.qbits[i] : i \in 1 .. Len(g.qbits) - 1}

\* a multi-controlled X on a basis state w (w[q + 1] is the value of wire q)
ApplyX(w, g) ==
    IF \A c \in GateControls(g) : w[c + 1] = 1
    THEN [w EXCEPT ![GateTarget(g) + 1] = 1 - @]
    ELSE w

RECURSIVE Run(_, _, _)
\* the state after gates i .. of c
Run(c, i, w) == IF i > Len(c) THEN w ELSE Run(c, i + 1, ApplyX(w, c[i]))

\* the returned gate is put in a circuit and run on a basis state: the
\* n wires of the gate hold the input, every ancilla starts at 0
Prepare ==
    /\ pc = "built"
    /\ \E in \in [1 .. n -> {0, 1}] :
          /\ input' = in
          /\ wires' = in \o [i \in 1 .. NbAncillae(ret) |-> 0]
          /\ ref' = Run(Circuit(StandardToffoli(n)), 1, in)
    /\ circ' = Circuit(ret)
    /\ ip' = 1
    /\ pc' = "running"
    /\ UNCHANGED <<n, stack, ret>>

\* one gate of the circuit
Step ==
    /\ pc = "running"
    /\ ip <= Len(circ)
    /\ wires' = ApplyX(wires, circ[ip])
    /\ ip' = ip + 1
    /\ pc' = IF ip = Len(circ) THEN "done" ELSE "running"
    /\ UNCHANGED <<n, stack, ret, circ, input, ref>>

----------------------------------------------------------------------------

Init ==
    /\ n \in Args
    /\ stack = <<NewFrame(n)>>
    /\ ret = NoGate
    /\ pc = "building"
    /\ circ = <<>>
    /\ input = <<>>
    /\ wires = <<>>
    /\ ip = 0
    /\ ref = <<>>

Next ==
    \/ BaseCase
    \/ CallFirst
    \/ RecursionError
    \/ LibraryError
    \/ CallSecond
    \/ FinishOneHalf
    \/ FinishTwoHalves
    \/ Prepare
    \/ Step

Spec == Init /\ [][Next]_vars

FairSpec == Spec /\ WF_vars(Next)

----------------------------------------------------------------------------
(* Properties *)

\* the top-level call has returned its gate
Built == pc \in {"built", "running", "done"}

\* the circuit of the returned gate is being run or has been run
Started == pc \in {"running", "done"}

\* the AND of the input bits of control wires lo .. hi
AndOfInputs(lo, hi) == IF \A w \in lo .. hi : input[w + 1] = 1 THEN 1 ELSE 0

\* the operation applied after the compute block and before the uncompute
MainOp == SelectSeq(ret.impl.ops, LAMBDA o : o.block = "main")[1]

\* the sub-gate applications of the compute block of the returned routine
SubGates == ComputeOps(ret.impl)

\* the next gate to execute is the final doubly-controlled NOT
AtFinalGate == pc = "running" /\ circ[ip].block = "main"

\* the size of the first half of the n - 1 controls, rounded up
HalfUp == n \div 2

\* C1: for n >= 3 and every basis-state input, with the ancillae at 0, the
\* n wires of dac_toffoli(n) end with the values standard_toffoli(n) gives
\* them: the controls unchanged, the target flipped iff all n-1 controls are 1
C1_SameAsStandard ==
    (pc = "done" /\ n >= 3) =>
        /\ SubSeq(wires, 1, n) = ref
        /\ \A w \in 0 .. n - 2 : wires[w + 1] = input[w + 1]
        /\ wires[n] = IF AndOfInputs(0, n - 2) = 1 THEN 1 - input[n] ELSE input[n]

C1_Witness ==
    /\ pc = "done" /\ n >= 6
    /\ AndOfInputs(0, n - 2) = 1
    /\ wires[n] = 1 /\ input[n] = 0

\* C2: after the whole circuit has run, every ancilla wire, of every
\* recursion level, holds the value it had before the gate started (0)
C2_AncillaeRestored ==
    (pc = "done" /\ n >= 3) =>
        /\ Len(wires) = n + NbAncillae(ret)
        /\ \A i \in n + 1 .. Len(wires) : wires[i] = 0

C2_Witness ==
    /\ pc = "done" /\ n >= 6
    /\ Len(wires) >= n + 3
    /\ AndOfInputs(0, n - 2) = 1

\* C3, as stated: for every n > 3 both controls of the final doubly-
\* controlled NOT are ancilla wires of the routine, each the target of a
\* sub-gate of the compute block
C3_FinalOnTwoAncillae ==
    (Built /\ n > 3) =>
        /\ MainOp.qbits[1] \in ret.impl.ancillae
        /\ MainOp.qbits[2] \in ret.impl.ancillae
        /\ MainOp.qbits[1] # MainOp.qbits[2]
        /\ Len(SubGates) = 2
        /\ PyLast(SubGates[1].qbits) = MainOp.qbits[1]
        /\ PyLast(SubGates[2].qbits) = MainOp.qbits[2]

\* C3, amended: for n > 4 each half of the controls is ANDed by a sub-gate
\* into an ancilla of its own and the final doubly-controlled NOT is
\* controlled by the two ancillae; for n = 4 only the first half (2 wires)
\* gets a sub-gate and an ancilla, and the second control of the final gate
\* is the last control wire itself.  In both cases the two controls of the
\* final gate hold the ANDs of the two halves when it executes.
C3_FinalGateControls ==
    (Built /\ n > 3) =>
        LET a1 == MainOp.qbits[1]
            a2 == MainOp.qbits[2]
        IN  /\ MainOp.gate = XCtrl(2)
            /\ MainOp.qbits = <<a1, a2, n - 1>>
            /\ a1 \in ret.impl.ancillae
            /\ SubGates[1].gate.name = "TOFF"
            /\ SubGates[1].qbits = SeqRange(0, HalfUp) \o <<a1>>
            /\ n > 4 => /\ a2 \in ret.impl.ancillae /\ a2 # a1
                        /\ Len(SubGates) = 2
                        /\ SubGates[2].gate.name = "TOFF"
                        /\ SubGates[2].qbits = SeqRange(HalfUp, n - 1 - HalfUp) \o <<a2>>
            /\ n = 4 => /\ a2 = n - 2
                        /\ Len(SubGates) = 1
            /\ AtFinalGate => /\ wires[a1 + 1] = AndOfInputs(0, HalfUp - 1)
                              /\ wires[a2 + 1] = AndOfInputs(HalfUp, n - 2)

C3_Witness ==
    /\ AtFinalGate /\ n = 4
    /\ wires[MainOp.qbits[1] + 1] = 1
    /\ MainOp.qbits[2] = 2

\* C4: for n < 3 the call never returns a routine: no call of the chain has
\* the argument 3, and the call ends in an error
C4_InvalidNeverReturns ==
    /\ [](n < 3 => /\ ret = NoGate
                   /\ pc \in {"building", "error"}
                   /\ \A i \in 1 .. Len(stack) : stack[i].n < 3)
    /\ ((n < 3 /\ pc = "building") ~> (pc = "error"))

C4_Witness ==
    /\ n < 3 /\ pc = "building"
    /\ Len(stack) = RecursionLimit
    /\ Top.n = 2

\* C5, as stated: for every n > 3 the expanded circuit has exactly one
\* ancilla wire in total
C5_OneAncilla ==
    (Built /\ n > 3) => NbAncillae(ret) = 1

\* C5, amended: the expanded circuit has exactly one ancilla wire only for
\* n = 4; for every n >= 5, dac_toffoli(n) itself allocates two ancilla wires
\* (first_anc and second_anc, both controls of the final gate), so the
\* circuit has at least two
C5_AncillaCount ==
    (Built /\ n > 3) =>
        /\ n = 4 => /\ NbAncillae(ret) = 1
                    /\ Cardinality(ret.impl.ancillae) = 1
        /\ n >= 5 => /\ Cardinality(ret.impl.ancillae) = 2
                     /\ ret.impl.ancillae = {MainOp.qbits[1], MainOp.qbits[2]}
                     /\ NbAncillae(ret) >= 2
        /\ ret.impl.ancillae \subseteq n .. ret.impl.nbwires - 1

C5_Witness ==
    /\ Built /\ n = 7
    /\ Cardinality(ret.impl.ancillae) = 2
    /\ NbAncillae(ret) > 2

\* C6: dac_toffoli(3) makes no recursive call and returns a routine over
\* exactly 3 wires, without ancilla or compute block, whose only gate is a
\* doubly-controlled NOT from the 2 controls onto the target
C6_BaseCase ==
    n = 3 =>
        /\ Len(stack) <= 1
        /\ pc # "error"
        /\ Built => /\ ret.impl.nbwires = 3
                    /\ ret.impl.ancillae = {}
                    /\ ret.impl.computing = FALSE
                    /\ Len(ret.impl.ops) = 1
                    /\ ret.impl.ops[1].gate = XCtrl(2)
                    /\ ret.impl.ops[1].qbits = <<0, 1, 2>>
                    /\ ret.impl.ops[1].block = "main"
        /\ Started => /\ Len(circ) = 1
                      /\ circ[1].nctrl = 2
                      /\ GateControls(circ[1]) = {0, 1}
                      /\ GateTarget(circ[1]) = 2

C6_Witness ==
    /\ n = 3 /\ pc = "done"
    /\ input = <<1, 1, 0>>
    /\ wires = <<1, 1, 1>>

\* C7: for n >= 3 no gate of the expanded circuit has a top-level control
\* wire as its target, and the control wires hold their input values in
\* every state of the execution
C7_ControlsUntouched ==
    (Started /\ n >= 3) =>
        /\ \A i \in 1 .. Len(circ) : GateTarget(circ[i]) \notin 0 .. n - 2
        /\ \A w \in 0 .. n - 2 : wires[w + 1] = input[w + 1]

C7_Witness ==
    /\ pc = "running" /\ n >= 4
    /\ ip > 1
    /\ wires # input \o [i \in 1 .. NbAncillae(ret) |-> 0]

\* C8: for n >= 3 every recursive call has an argument m with 3 <= m < the
\* caller's argument, no call fails, and the top-level call returns
C8_ValidTerminates ==
    /\ [](n >= 3 => /\ pc # "error"
                    /\ \A i \in 2 .. Len(stack) :
                           3 <= stack[i].n /\ stack[i].n < stack[i - 1].n)
    /\ ((n >= 3 /\ pc = "building") ~> (pc = "built"))

C8_Witness ==
    /\ n >= 3 /\ pc = "building"
    /\ Len(stack) = 3
    /\ Top.n = 3 /\ stack[2].n = 4 /\ stack[1].at = "first"

\* C9: for n > 3 the two slices of the controls are disjoint, cover the
\* n - 1 controls, have sizes first_half and second_half, which differ by 0
\* or 1, and every sub-gate dac_toffoli(k + 1) is applied to its k controls
\* and one ancilla, k + 1 wires, as its declared arity asks
C9_SlicesAndArity ==
    (Built /\ n > 3) =>
        LET controls == SeqRange(0, n - 1)
            a == FirstSlice(controls, n)
            b == SecondSlice(controls, n)
        IN  /\ SeqToSet(a) \cap SeqToSet(b) = {}
            /\ SeqToSet(a) \cup SeqToSet(b) = 0 .. n - 2
            /\ a \o b = controls
            /\ Len(a) = FirstHalf(n) /\ Len(b) = SecondHalf(n)
            /\ Len(a) = HalfUp /\ Len(a) + Len(b) = n - 1
            /\ FirstHalf(n) - SecondHalf(n) \in {0, 1}
            /\ SubGates[1].qbits = a \o <<PyLast(SubGates[1].qbits)>>
            /\ SubGates[1].gate.param = Len(a) + 1
            /\ Len(SubGates) = 2 =>
                   /\ SubGates[2].qbits = b \o <<PyLast(SubGates[2].qbits)>>
                   /\ SubGates[2].gate.param = Len(b) + 1
            /\ \A i \in 1 .. Len(ret.impl.ops) :
                   LET op == ret.impl.ops[i]
                   IN  /\ Len(op.qbits) = op.gate.arity
                       /\ Cardinality(SeqToSet(op.qbits)) = Len(op.qbits)
                       /\ op.gate.name = "TOFF" =>
                              /\ op.gate.arity = op.gate.param
                              /\ op.gate.impl.nbwires - Len(op.hidden) = op.gate.arity

C9_Witness ==
    /\ Built /\ n = 6
    /\ Len(SubGates) = 2
    /\ Len(SubGates[1].qbits) = 4 /\ Len(SubGates[2].qbits) = 3

\* C10: for n > 3 exactly one gate of the expanded circuit acts on the
\* top-level target wire, the final doubly-controlled NOT; every gate of the
\* compute block comes before it and every gate of the uncompute step after
\* it; the uncompute step is the gates of the compute block in reverse order
C10_TargetOnceAndOrder ==
    (Started /\ n > 3) =>
        LET onTarget == {i \in 1 .. Len(circ) : (n - 1) \in SeqToSet(circ[i].qbits)}
            k == Cardinality({i \in 1 .. Len(circ) : circ[i].block = "compute"})
        IN  /\ onTarget = {k + 1}
            /\ k >= 1
            /\ Len(circ) = 2 * k + 1
            /\ circ[k + 1].block = "main"
            /\ circ[k + 1].nctrl = 2
            /\ GateTarget(circ[k + 1]) = n - 1
            /\ \A i \in 1 .. k :
                   /\ circ[i].block = "compute"
                   /\ circ[2 * k + 2 - i].block = "uncompute"
                   /\ circ[2 * k + 2 - i].nctrl = circ[i].nctrl
                   /\ circ[2 * k + 2 - i].qbits = circ[i].qbits

C10_Witness ==
    /\ pc = "done" /\ n = 6
    /\ Len(circ) = 9
    /\ circ[1].qbits # circ[4].qbits

====
